---- MODULE Spec2Model ----
(***************************************************************************)
(* Model of consolidate_csv.py: the value helpers parse_date and           *)
(* strip_non_numeric, the nine per-source processors, and the run of       *)
(* consolidate_csv_files (loop over the configured sources, outer merge on *)
(* date, fromdate filter, sort, column ordering, output).                  *)
(*                                                                         *)
(* Text is a sequence of one-character strings.  A cell is a record with   *)
(* a flag na: a text cell is [na, s], a numeric cell is [na, m, e] and     *)
(* stands for the decimal m / 10^e.  None and NaN are both "na".           *)
(***************************************************************************)
EXTENDS Integers, Sequences, FiniteSets, TLC

VARIABLES
    platform,      \* C library behind datetime.strftime
    fn,            \* helper applied last (helper specification)
    arg,           \* its argument
    ret,           \* its result
    cur_prefix,    \* source processed last (processor specification)
    cur_file,      \* the file handed to the processor
    table,         \* the processor's result
    input_files,   \* run: configured sources, in configuration order
    from_date,     \* run: constants['fromdate']
    idx,           \* run: number of loop iterations done
    dataframes,    \* run: list of per-source tables
    inputs,        \* run: the file found for each iteration
    log,           \* run: printed messages
    consolidated,  \* run: the table after the merge loop (line 307)
    output,        \* run: the table written to the output file
    pc             \* run: position in consolidate_csv_files

vars == <<platform, fn, arg, ret, cur_prefix, cur_file, table, input_files, from_date,
          idx, dataframes, inputs, log, consolidated, output, pc>>

fnVars   == <<fn, arg, ret>>
procVars == <<cur_prefix, cur_file, table>>
runVars  == <<input_files, from_date, idx, dataframes, inputs, log,
              consolidated, output, pc>>

(***************************************************************************)
(* Text and cells                                                          *)
(***************************************************************************)
Digits == {"0", "1", "2", "3", "4", "5", "6", "7", "8", "9"}

DigitVal(c) ==
    CASE c = "0" -> 0 [] c = "1" -> 1 [] c = "2" -> 2 [] c = "3" -> 3
      [] c = "4" -> 4 [] c = "5" -> 5 [] c = "6" -> 6 [] c = "7" -> 7
      [] c = "8" -> 8 [] c = "9" -> 9

DigitChar(n) ==
    CASE n = 0 -> "0" [] n = 1 -> "1" [] n = 2 -> "2" [] n = 3 -> "3"
      [] n = 4 -> "4" [] n = 5 -> "5" [] n = 6 -> "6" [] n = 7 -> "7"
      [] n = 8 -> "8" [] n = 9 -> "9"

IsDigitAt(s, i) == i >= 1 /\ i <= Len(s) /\ s[i] \in Digits

Str(s) == [na |-> FALSE, s |-> s]
NoneStr == [na |-> TRUE, s |-> <<>>]

Num(m, e) == [na |-> FALSE, m |-> m, e |-> e]
NaN == [na |-> TRUE, m |-> 0, e |-> 0]

\* str(value): the text of a cell; a missing cell prints as "nan"
str(value) == IF value.na THEN <<"n", "a", "n">> ELSE value.s

\* str.strip(): leading and trailing whitespace removed
RECURSIVE lstrip(_)
lstrip(s) == IF s # <<>> /\ Head(s) = " " THEN lstrip(Tail(s)) ELSE s

RECURSIVE rstrip(_)
rstrip(s) ==
    IF s # <<>> /\ s[Len(s)] = " " THEN rstrip(SubSeq(s, 1, Len(s) - 1)) ELSE s

strip(s) == rstrip(lstrip(s))

\* str.startswith
startswith(s, p) == Len(s) >= Len(p) /\ SubSeq(s, 1, Len(p)) = p

\* str.split(): the whitespace-separated words
RECURSIVE split(_)
split(s) ==
    LET Cut(t, n) == <<SubSeq(t, 1, n)>> \o split(SubSeq(t, n + 1, Len(t)))
        Word(t) ==
            IF t = <<>> THEN <<>>
            ELSE IF \E i \in 1..Len(t) : t[i] = " "
            THEN Cut(t, (CHOOSE i \in 1..Len(t) :
                            t[i] = " " /\ \A j \in 1..(i - 1) : t[j] # " ") - 1)
            ELSE <<t>>
    IN  Word(lstrip(s))

\* the number written by a run of digits
RECURSIVE DigitsVal(_)
DigitsVal(s) ==
    IF s = <<>> THEN 0
    ELSE 10 * DigitsVal(SubSeq(s, 1, Len(s) - 1)) + DigitVal(s[Len(s)])

\* number of leading digits of s from position i on
RECURSIVE DigitRun(_, _)
DigitRun(s, i) == IF IsDigitAt(s, i) THEN 1 + DigitRun(s, i + 1) ELSE 0

(***************************************************************************)
(* strip_non_numeric                                                       *)
(***************************************************************************)
\* re.search(r'-?\d+\.?\d*', s): the leftmost match, each part greedy;
\* the empty text when there is no match
re_search(s) ==
    LET starts == {i \in 1..Len(s) :
                      \/ IsDigitAt(s, i)
                      \/ s[i] = "-" /\ IsDigitAt(s, i + 1)}
        Upto(i, dot) ==
            SubSeq(s, i, IF dot <= Len(s) /\ s[dot] = "."
                         THEN dot + DigitRun(s, dot + 1) ELSE dot - 1)
        From(i, d0) == Upto(i, d0 + DigitRun(s, d0))
        At(i) == From(i, IF s[i] = "-" THEN i + 1 ELSE i)
    IN  IF starts = {} THEN <<>>
        ELSE At(CHOOSE k \in starts : \A j \in starts : k <= j)

\* m / 10^e with the trailing zeros of the fraction removed
RECURSIVE Normal(_, _)
Normal(m, e) ==
    IF e > 0 /\ m % 10 = 0 THEN Normal(m \div 10, e - 1) ELSE Num(m, e)

\* float(text) for a text of the shape -?\d+\.?\d*
float(text) ==
    LET Signed(neg, mag, e) == Normal(IF neg THEN 0 - mag ELSE mag, e)
        Parts(neg, whole, frac) == Signed(neg, DigitsVal(whole \o frac), Len(frac))
        Body(neg, body, n) ==
            Parts(neg, SubSeq(body, 1, n), SubSeq(body, n + 2, Len(body)))
        Of(neg, body) == Body(neg, body, DigitRun(body, 1))
    IN  Of(text[1] = "-", IF text[1] = "-" THEN Tail(text) ELSE text)

\* a faulty variant: reads the number without its sign
strip_non_numeric_unsigned(value) ==
    LET Number(match) ==
            IF match = <<>> THEN NaN
            ELSE IF match[1] = "-" THEN float(Tail(match))
            ELSE float(match)
        Of(value_str) ==
            IF strip(value_str) \in {<<"-", "-">>, <<"-", " ", "-">>, <<>>}
            THEN NaN
            ELSE Number(re_search(value_str))
    IN  IF value.na THEN NaN ELSE Of(str(value))

strip_non_numeric(value) ==
    LET Number(match) == IF match # <<>> THEN float(match) ELSE NaN
        Of(value_str) ==
            IF strip(value_str) \in {<<"-", "-">>, <<"-", " ", "-">>, <<>>}
            THEN NaN
            ELSE Number(re_search(value_str))
    IN  IF value.na THEN NaN ELSE Of(str(value))

(***************************************************************************)
(* parse_date                                                              *)
(***************************************************************************)
Directives == {"%Y", "%m", "%d", "%H", "%M", "%S", "%I", "%p"}

formats ==
    << <<"%Y", "-", "%m", "-", "%d", " ", "%H", ":", "%M", ":", "%S">>,
       <<"%Y", "-", "%m", "-", "%d">>,
       <<"%m", "/", "%d", "/", "%Y">>,
       <<"%Y", ".", "%m", ".", "%d", " ", "%I", ":", "%M", " ", "%p">> >>

month_abbr ==
    << <<"J", "a", "n">>, <<"F", "e", "b">>, <<"M", "a", "r">>,
       <<"A", "p", "r">>, <<"M", "a", "y">>, <<"J", "u", "n">>,
       <<"J", "u", "l">>, <<"A", "u", "g">>, <<"S", "e", "p">>,
       <<"O", "c", "t">>, <<"N", "o", "v">>, <<"D", "e", "c">> >>

InSet(s, i, S) == i >= 1 /\ i <= Len(s) /\ s[i] \in S

\* length of the text the directive's pattern takes at position i, 0 if it
\* does not match there (the alternatives are tried in the pattern's order)
FieldLen(dir, s, i) ==
    CASE dir = "%Y" -> IF DigitRun(s, i) >= 4 THEN 4 ELSE 0
      [] dir \in {"%m", "%I"} ->
            IF InSet(s, i, {"1"}) /\ InSet(s, i + 1, {"0", "1", "2"}) THEN 2
            ELSE IF InSet(s, i, {"0"}) /\ InSet(s, i + 1, Digits \ {"0"}) THEN 2
            ELSE IF InSet(s, i, Digits \ {"0"}) THEN 1
            ELSE 0
      [] dir = "%d" ->
            IF InSet(s, i, {"3"}) /\ InSet(s, i + 1, {"0", "1"}) THEN 2
            ELSE IF InSet(s, i, {"1", "2"}) /\ InSet(s, i + 1, Digits) THEN 2
            ELSE IF InSet(s, i, {"0"}) /\ InSet(s, i + 1, Digits \ {"0"}) THEN 2
            ELSE IF InSet(s, i, Digits \ {"0"}) THEN 1
            ELSE IF InSet(s, i, {" "}) /\ InSet(s, i + 1, Digits \ {"0"}) THEN 2
            ELSE 0
      [] dir = "%H" ->
            IF InSet(s, i, {"2"}) /\ InSet(s, i + 1, {"0", "1", "2", "3"}) THEN 2
            ELSE IF InSet(s, i, {"0", "1"}) /\ InSet(s, i + 1, Digits) THEN 2
            ELSE IF InSet(s, i, Digits) THEN 1
            ELSE 0
      [] dir = "%M" ->
            IF InSet(s, i, {"0", "1", "2", "3", "4", "5"})
               /\ InSet(s, i + 1, Digits) THEN 2
            ELSE IF InSet(s, i, Digits) THEN 1
            ELSE 0
      [] dir = "%S" ->
            IF InSet(s, i, {"6"}) /\ InSet(s, i + 1, {"0", "1"}) THEN 2
            ELSE IF InSet(s, i, {"0", "1", "2", "3", "4", "5"})
                    /\ InSet(s, i + 1, Digits) THEN 2
            ELSE IF InSet(s, i, Digits) THEN 1
            ELSE 0
      [] dir = "%p" ->
            IF InSet(s, i, {"A", "a", "P", "p"}) /\ InSet(s, i + 1, {"M", "m"})
            THEN 2 ELSE 0

\* number of blanks from position i on
RECURSIVE BlankRun(_, _)
BlankRun(s, i) == IF InSet(s, i, {" "}) THEN 1 + BlankRun(s, i + 1) ELSE 0

NoMatch == [ok |-> FALSE, Y |-> 0, m |-> 0, d |-> 0, S |-> 0]

\* the match of fmt[k..] against s[i..]; whitespace in the format stands
\* for one or more blanks, any other character for itself, and the whole
\* text has to be used up
RECURSIVE MatchFrom(_, _, _, _, _)
MatchFrom(fmt, k, s, i, acc) ==
    LET Set(dir, v) ==
            CASE dir = "%Y" -> [acc EXCEPT !.Y = v]
              [] dir = "%m" -> [acc EXCEPT !.m = v]
              [] dir = "%d" -> [acc EXCEPT !.d = v]
              [] dir = "%S" -> [acc EXCEPT !.S = v]
              [] OTHER -> acc
        Field(n) ==
            IF n = 0 THEN NoMatch
            ELSE MatchFrom(fmt, k + 1, s, i + n,
                           Set(fmt[k], DigitsVal(lstrip(SubSeq(s, i, i + n - 1)))))
        Blanks(n) ==
            IF n = 0 THEN NoMatch ELSE MatchFrom(fmt, k + 1, s, i + n, acc)
    IN  IF k > Len(fmt) THEN (IF i = Len(s) + 1 THEN acc ELSE NoMatch)
        ELSE IF fmt[k] \in Directives THEN Field(FieldLen(fmt[k], s, i))
        ELSE IF fmt[k] = " " THEN Blanks(BlankRun(s, i))
        ELSE IF InSet(s, i, {fmt[k]}) THEN MatchFrom(fmt, k + 1, s, i + 1, acc)
        ELSE NoMatch

IsLeap(y) == y % 4 = 0 /\ (y % 100 # 0 \/ y % 400 = 0)

DaysInMonth(y, m) ==
    IF m = 2 THEN (IF IsLeap(y) THEN 29 ELSE 28)
    ELSE IF m \in {4, 6, 9, 11} THEN 30 ELSE 31

\* datetime(year, month, day): the value, or ok = FALSE for ValueError
datetime(year, month, day) ==
    [ok |-> year >= 1 /\ year <= 9999 /\ month >= 1 /\ month <= 12
            /\ day >= 1 /\ day <= DaysInMonth(year, month),
     year |-> year, month |-> month, day |-> day]

\* datetime.strptime(date_str, fmt), ok = FALSE for ValueError
strptime(date_str, fmt) ==
    LET Built(f, dt) == [dt EXCEPT !.ok = f.ok /\ f.S <= 59 /\ dt.ok]
        Found(f) == Built(f, datetime(f.Y, f.m, f.d))
    IN  Found(MatchFrom(fmt, 1, date_str, 1,
                        [ok |-> TRUE, Y |-> 1900, m |-> 1, d |-> 1, S |-> 0]))

\* the decimal digits of a natural number
RECURSIVE Decimal(_)
Decimal(n) ==
    IF n < 10 THEN <<DigitChar(n)>>
    ELSE Decimal(n \div 10) \o <<DigitChar(n % 10)>>

RECURSIVE ZeroPad(_, _)
ZeroPad(s, w) == IF Len(s) >= w THEN s ELSE ZeroPad(<<"0">> \o s, w)

\* dt.strftime('%Y%m%d'): %Y is the C library's; glibc writes the year
\* without leading zeros, other libraries pad it to four digits
strftime(dt) ==
    (IF platform = "glibc" THEN Decimal(dt.year) ELSE ZeroPad(Decimal(dt.year), 4))
    \o ZeroPad(Decimal(dt.month), 2) \o ZeroPad(Decimal(dt.day), 2)

\* int(text): ok = FALSE for ValueError
int(text) ==
    LET Value(neg, body, ok) ==
            [ok |-> ok,
             v |-> IF ~ok THEN 0 ELSE IF neg THEN 0 - DigitsVal(body) ELSE DigitsVal(body)]
        Of(neg, body) ==
            Value(neg, body, body # <<>> /\ DigitRun(body, 1) = Len(body))
    IN  IF text # <<>> /\ text[1] \in {"-", "+"}
        THEN Of(text[1] = "-", Tail(text))
        ELSE Of(FALSE, text)

\* the loop over formats (lines 42-47): the first format that parses
RECURSIVE TryFormats(_, _)
TryFormats(date_str, k) ==
    LET Parsed(dt) ==
            IF dt.ok THEN Str(strftime(dt)) ELSE TryFormats(date_str, k + 1)
    IN  IF k > Len(formats) THEN NoneStr
        ELSE Parsed(strptime(date_str, formats[k]))

\* line 57
InferYear(month) == IF month = <<"D", "e", "c">> THEN 2025 ELSE 2026

\* the loop over month_abbr (lines 52-61)
RECURSIVE TryMonths(_, _)
TryMonths(date_str, i) ==
    LET Dated(dt) ==
            IF dt.ok THEN Str(strftime(dt)) ELSE TryMonths(date_str, i + 1)
        Day(month, day) ==
            IF day.ok THEN Dated(datetime(InferYear(month), i, day.v))
            ELSE TryMonths(date_str, i + 1)
        Words(month, words) ==
            IF Len(words) >= 2 THEN Day(month, int(words[2]))
            ELSE TryMonths(date_str, i + 1)
        Month(month) ==
            IF startswith(date_str, month) THEN Words(month, split(date_str))
            ELSE TryMonths(date_str, i + 1)
    IN  IF i > Len(month_abbr) THEN NoneStr ELSE Month(month_abbr[i])

parse_date(value) ==
    LET Abbreviated(date_str, full) ==
            IF ~full.na THEN full ELSE TryMonths(date_str, 1)
        Of(date_str) == Abbreviated(date_str, TryFormats(date_str, 1))
    IN  Of(strip(str(value)))

(***************************************************************************)
(* Helper specification: the two helpers applied to bounded inputs         *)
(***************************************************************************)
MaxLen == 4

Platforms == {"glibc", "padded"}

YearTexts ==
    {<<"2", "0", "2", "5">>, <<"2", "0", "2", "6">>, <<"2", "0", "2", "4">>,
     <<"0", "9", "9", "9">>, <<"0", "0", "0", "0">>}

MonthTexts ==
    {<<"0", "1">>, <<"1">>, <<"1", "2">>, <<"1", "3">>, <<"0", "2">>}

DayTexts ==
    {<<"0", "7">>, <<"7">>, <<"2", "9">>, <<"3", "1">>, <<"3", "2">>, <<" ", "5">>}

TimeTexts ==
    {<<"0", "0", ":", "0", "0", ":", "0", "0">>, <<"0", ":", "0", ":", "0">>,
     <<"0", "0", ":", "0", "0", ":", "6", "0">>, <<"2", "4", ":", "0", "0", ":", "0", "0">>}

ClockTexts ==
    {<<"1", "1", ":", "5", "8", " ", "A", "M">>, <<"1", "1", ":", "5", "8", " ", "p", "m">>,
     <<"0", ":", "5", "8", " ", "A", "M">>, <<"1", "1", ":", "5", "8">>}

MonthWords ==
    {<<"J", "a", "n">>, <<"F", "e", "b">>, <<"J", "u", "n">>, <<"D", "e", "c">>, <<"D", "e", "x">>, <<"d", "e", "c">>}

WordTails ==
    {<<>>, <<" ", "1", "0">>, <<" ", "2", "1">>, <<" ", "2", "9">>,
     <<" ", "3", "1">>, <<" ", "0">>, <<" ", " ", "7">>, <<" ", "x">>,
     <<"1", "0">>, <<" ", "1", "0", " ", "2", "0", "2", "4">>, <<" ", "+", "5">>, <<" ", "-", "5">>}

OtherTexts ==
    {<<"n", "o", "t", " ", "a", " ", "d", "a", "t", "e">>, <<>>,
     <<"n", "a", "n">>, <<"2", "0", "2", "5", "0", "1", "0", "7">>,
     <<"2", "0", "2", "5", "-", "0", "1", "-", "0", "7", "T", "0", "0", ":", "0", "0", ":", "0", "0">>}

Margins ==
    {<<>>, <<" ">>}

DateTexts ==
    LET ymd(a, y, b, m, c, d) == a \o y \o b \o m \o c \o d
        core ==
            {ymd(<<>>, y, <<"-">>, m, <<"-">>, d) :
                 y \in YearTexts, m \in MonthTexts, d \in DayTexts}
            \cup {ymd(<<>>, y, <<"-">>, m, <<"-">>, d) \o <<" ">> \o h :
                 y \in YearTexts, m \in MonthTexts, d \in DayTexts, h \in TimeTexts}
            \cup {ymd(<<>>, m, <<"/">>, d, <<"/">>, y) :
                 y \in YearTexts, m \in MonthTexts, d \in DayTexts}
            \cup {ymd(<<>>, y, <<".">>, m, <<".">>, d) \o <<" ">> \o h :
                 y \in YearTexts, m \in MonthTexts, d \in DayTexts, h \in ClockTexts}
            \cup {w \o x : w \in MonthWords, x \in WordTails}
            \cup OtherTexts
    IN  {a \o s \o b : a \in Margins, s \in core, b \in Margins}

DateInputs == {NoneStr} \cup {Str(s) : s \in DateTexts}

Alphabet == {"-", "+", " ", ".", "7", "0", "b"}

NumberExamples ==
    {<<"-", "-", " ", "7", "2", ".", "5", " ", "b", "p", "m">>, <<"7", "2", " ", "b", "p", "m">>, <<"-", "3", "0", "0">>,
     <<"-", "1", "5", "0">>, <<"n", "a", "n">>, <<"-", " ", "-">>}

NumberTexts ==
    UNION {[1..n -> Alphabet] : n \in 0..MaxLen} \cup NumberExamples

NumberInputs == {NaN} \cup {Str(s) : s \in NumberTexts}

NoFile == [readable |-> FALSE, columns |-> <<>>, rows |-> <<>>]

NoTable == [ok |-> FALSE, columns |-> <<>>, rows |-> <<>>]

IdleProc ==
    /\ cur_prefix = <<>>
    /\ cur_file = NoFile
    /\ table = NoTable

IdleRun ==
    /\ input_files = <<>>
    /\ from_date = 0
    /\ idx = 0
    /\ dataframes = <<>>
    /\ inputs = <<>>
    /\ log = <<>>
    /\ consolidated = NoTable
    /\ output = NoTable
    /\ pc = "idle"

InitFn ==
    /\ platform \in Platforms
    /\ fn = "none"
    /\ arg = NoneStr
    /\ ret = NoneStr
    /\ IdleProc
    /\ IdleRun

CallParseDate ==
    /\ fn = "none"
    /\ \E v \in DateInputs :
          /\ fn' = "parse_date"
          /\ arg' = v
          /\ ret' = parse_date(v)
    /\ UNCHANGED <<platform, procVars, runVars>>

CallStripNonNumeric ==
    /\ fn = "none"
    /\ \E v \in NumberInputs :
          /\ fn' = "strip_non_numeric"
          /\ arg' = v
          /\ ret' = strip_non_numeric(v)
    /\ UNCHANGED <<platform, procVars, runVars>>

NextFn == CallParseDate \/ CallStripNonNumeric

SpecFn == InitFn /\ [][NextFn]_vars

(***************************************************************************)
(* Names, tables and the pandas operations the processors use              *)
(***************************************************************************)
\* characters in code point order, for the comparison of names and dates
CodeOrder ==
    <<" ", "(", ")", "-", "0", "1", "2", "3", "4", "5", "6", "7", "8", "9",
      "A", "B", "C", "D", "E", "F", "G", "H", "I", "J", "K", "L", "M",
      "N", "O", "P", "Q", "R", "S", "T", "U", "V", "W", "X", "Y", "Z", "_",
      "a", "b", "c", "d", "e", "f", "g", "h", "i", "j", "k", "l", "m",
      "n", "o", "p", "q", "r", "s", "t", "u", "v", "w", "x", "y", "z">>

Ord(c) == CHOOSE i \in 1..Len(CodeOrder) : CodeOrder[i] = c

\* a < b for two texts, as Python compares str
RECURSIVE TextLess(_, _)
TextLess(a, b) ==
    IF b = <<>> THEN FALSE
    ELSE IF a = <<>> THEN TRUE
    ELSE IF Head(a) = Head(b) THEN TextLess(Tail(a), Tail(b))
    ELSE Ord(Head(a)) < Ord(Head(b))

\* str.lower()
lower(s) ==
    [i \in 1..Len(s) |->
        IF Ord(s[i]) >= Ord("A") /\ Ord(s[i]) <= Ord("Z")
        THEN CodeOrder[Ord(s[i]) - Ord("A") + Ord("a")]
        ELSE s[i]]

\* str.replace(old, new) for a one-character old
RECURSIVE replace(_, _, _)
replace(s, old, new) ==
    IF s = <<>> THEN <<>>
    ELSE (IF Head(s) = old THEN new ELSE <<Head(s)>>) \o replace(Tail(s), old, new)

\* sorted(names): insertion into the sorted rest
RECURSIVE sorted(_)
sorted(names) ==
    IF names = <<>> THEN <<>>
    ELSE LET rest == sorted(Tail(names))
             k    == Cardinality({i \in 1..Len(rest) : TextLess(rest[i], Head(names))})
         IN  SubSeq(rest, 1, k) \o <<Head(names)>> \o SubSeq(rest, k + 1, Len(rest))

date == <<"d", "a", "t", "e">>

\* the result of a call that raised instead of returning a table
Raise == [ok |-> FALSE, columns |-> <<>>, rows |-> <<>>]

\* pd.DataFrame: the column names in order and the rows, each row a
\* function from column name to cell
DataFrame(columns, rows) == [ok |-> TRUE, columns |-> columns, rows |-> rows]

HasColumn(df, name) == \E i \in 1..Len(df.columns) : df.columns[i] = name

\* sum and abs of decimals m / 10^e
RECURSIVE Pow10(_)
Pow10(e) == IF e = 0 THEN 1 ELSE 10 * Pow10(e - 1)

Add(a, b) ==
    LET e == IF a.e >= b.e THEN a.e ELSE b.e
    IN  Normal(a.m * Pow10(e - a.e) + b.m * Pow10(e - b.e), e)

Abs(a) == Num(IF a.m < 0 THEN 0 - a.m ELSE a.m, a.e)

\* Series.sum(): missing values are skipped, the empty sum is 0
RECURSIVE Sum(_)
Sum(cells) ==
    IF cells = <<>> THEN Num(0, 0)
    ELSE IF Head(cells).na THEN Sum(Tail(cells))
    ELSE Add(Head(cells), Sum(Tail(cells)))

(***************************************************************************)
(* The per-source processors.  A file is what pd.read_csv makes of it:     *)
(* readable = FALSE when read_csv raises, else the header's column names   *)
(* in order and the data rows, each a function from column name to cell.   *)
(***************************************************************************)
cron_carbs        == <<"c", "r", "o", "n", "_", "c", "a", "r", "b", "s">>
garm_hrv          == <<"g", "a", "r", "m", "_", "h", "r", "v">>
garm_intensity    == <<"g", "a", "r", "m", "_", "i", "n", "t", "e", "n", "s", "i", "t", "y">>
wyze_scale        == <<"w", "y", "z", "e", "_", "s", "c", "a", "l", "e">>
cron_sleep        == <<"c", "r", "o", "n", "_", "s", "l", "e", "e", "p">>
garm_stress       == <<"g", "a", "r", "m", "_", "s", "t", "r", "e", "s", "s">>
cron_dailysummary == <<"c", "r", "o", "n", "_", "d", "a", "i", "l", "y", "s", "u", "m", "m", "a", "r", "y">>
cron_exercises    == <<"c", "r", "o", "n", "_", "e", "x", "e", "r", "c", "i", "s", "e", "s">>
cron_biometrics   == <<"c", "r", "o", "n", "_", "b", "i", "o", "m", "e", "t", "r", "i", "c", "s">>

basal_burn == 2000

\* a faulty variant: drops the rows whose date does not parse
Extract_dropna(df, date_col, pairs) ==
    LET names == {pairs[j][2] : j \in 1..Len(pairs)}
        src(n) == (CHOOSE j \in 1..Len(pairs) : pairs[j][2] = n)
        Dated(row) == ~parse_date(row[date_col]).na
        kept == SelectSeq(df.rows, Dated)
    IN  DataFrame(<<date>> \o [j \in 1..Len(pairs) |-> pairs[j][2]],
            [i \in 1..Len(kept) |->
                [n \in {date} \cup names |->
                    IF n = date THEN parse_date(kept[i][date_col])
                    ELSE strip_non_numeric(kept[i][pairs[src(n)][1]])]])

\* the table with the parsed date column and one stripped numeric column
\* per pair <<source column, output column>>
Extract(df, date_col, pairs) ==
    LET names == {pairs[j][2] : j \in 1..Len(pairs)}
        src(n) == (CHOOSE j \in 1..Len(pairs) : pairs[j][2] = n)
    IN  DataFrame(<<date>> \o [j \in 1..Len(pairs) |-> pairs[j][2]],
            [i \in 1..Len(df.rows) |->
                [n \in {date} \cup names |->
                    IF n = date THEN parse_date(df.rows[i][date_col])
                    ELSE strip_non_numeric(df.rows[i][pairs[src(n)][1]])]])

process_carbs(file_path, prefix) ==
    LET df  == file_path
        col == prefix \o <<"_", "n", "e", "t", "_", "c", "a", "r", "b", "s">>
    IN  IF ~df.readable \/ ~HasColumn(df, <<"D", "a", "t", "e", "T", "i", "m", "e">>) THEN Raise
        ELSE IF HasColumn(df, <<"N", "e", "t", " ", "C", "a", "r", "b", "s">>)
        THEN Extract(df, <<"D", "a", "t", "e", "T", "i", "m", "e">>, << <<<<"N", "e", "t", " ", "C", "a", "r", "b", "s">>, col>> >>)
        ELSE DataFrame(<<date, col>>,
                [i \in 1..Len(df.rows) |->
                    [n \in {date, col} |->
                        IF n = date THEN parse_date(df.rows[i][<<"D", "a", "t", "e", "T", "i", "m", "e">>])
                        ELSE NaN]])

process_hrv(file_path, prefix) ==
    LET df == file_path
        numeric_cols == <<<<"O", "v", "e", "r", "n", "i", "g", "h", "t", " ", "H", "R", "V">>, <<"B", "a", "s", "e", "l", "i", "n", "e">>, <<"7", "d", " ", "A", "v", "g">>>>
        Present(col) == HasColumn(df, col)
        col_name(col) == replace(replace(lower(col), " ", <<"_">>), "d", <<"d", "a", "y">>)
        found == SelectSeq(numeric_cols, Present)
    IN  IF ~df.readable \/ ~HasColumn(df, <<"D", "a", "t", "e">>) THEN Raise
        ELSE Extract(df, <<"D", "a", "t", "e">>,
                [j \in 1..Len(found) |->
                    <<found[j], prefix \o <<"_">> \o col_name(found[j])>>])

process_intensity(file_path, prefix) ==
    LET df == file_path
    IN  IF ~df.readable \/ Len(df.columns) # 3 THEN Raise
        ELSE Extract(df, df.columns[1],
                << <<df.columns[2], prefix \o <<"_", "a", "c", "t", "u", "a", "l">>>> >>)

process_scale(file_path, prefix) ==
    LET df == file_path
        numeric_cols == <<<<"W", "e", "i", "g", "h", "t", "(", "l", "b", ")">>, <<"B", "M", "I">>, <<"B", "o", "d", "y", " ", "F", "a", "t">>, <<"B", "M", "R">>>>
        Present(col) == HasColumn(df, col)
        col_name(col) ==
            replace(replace(replace(replace(lower(col), "(", <<"_">>),
                                    ")", <<>>), " ", <<"_">>), "%", <<"p", "c", "t">>)
        found == SelectSeq(numeric_cols, Present)
    IN  IF ~df.readable \/ ~HasColumn(df, <<"D", "a", "t", "e", " ", "a", "n", "d", " ", "T", "i", "m", "e">>) THEN Raise
        ELSE Extract(df, <<"D", "a", "t", "e", " ", "a", "n", "d", " ", "T", "i", "m", "e">>,
                [j \in 1..Len(found) |->
                    <<found[j], prefix \o <<"_">> \o col_name(found[j])>>])

process_sleep(file_path, prefix) ==
    LET df == file_path
        date_col == <<"R", "E", "M", " ", "S", "l", "e", "e", "p", " ", "(", "x", ")">>
        sleep_types ==
            << <<<<"R", "E", "M", " ", "S", "l", "e", "e", "p", " ", "(", "y", ")">>, <<"r", "e", "m", "_", "s", "l", "e", "e", "p">>>>,
               <<<<"L", "i", "g", "h", "t", " ", "S", "l", "e", "e", "p", " ", "(", "y", ")">>, <<"l", "i", "g", "h", "t", "_", "s", "l", "e", "e", "p">>>>,
               <<<<"D", "e", "e", "p", " ", "S", "l", "e", "e", "p", " ", "(", "y", ")">>, <<"d", "e", "e", "p", "_", "s", "l", "e", "e", "p">>>> >>
        Present(t) == HasColumn(df, t[1])
        found == SelectSeq(sleep_types, Present)
    IN  IF ~df.readable \/ ~HasColumn(df, date_col) THEN Raise
        ELSE Extract(df, date_col,
                [j \in 1..Len(found) |->
                    <<found[j][1], prefix \o <<"_">> \o found[j][2]>>])

process_stress(file_path, prefix) ==
    LET df == file_path
        date_col == df.columns[1]
    IN  IF ~df.readable \/ ~HasColumn(df, <<"S", "t", "r", "e", "s", "s">>) THEN Raise
        ELSE Extract(df, date_col, << <<<<"S", "t", "r", "e", "s", "s">>, prefix \o <<"_", "s", "t", "r", "e", "s", "s">>>> >>)

process_dailysummary(file_path, prefix) ==
    LET df  == file_path
        col == prefix \o <<"_", "e", "n", "e", "r", "g", "y">>
    IN  IF ~df.readable \/ ~HasColumn(df, <<"D", "a", "t", "e">>) THEN Raise
        ELSE IF HasColumn(df, <<"E", "n", "e", "r", "g", "y", " ", "(", "k", "c", "a", "l", ")">>)
        THEN Extract(df, <<"D", "a", "t", "e">>, << <<<<"E", "n", "e", "r", "g", "y", " ", "(", "k", "c", "a", "l", ")">>, col>> >>)
        ELSE DataFrame(<<date, col>>,
                [i \in 1..Len(df.rows) |->
                    [n \in {date, col} |->
                        IF n = date THEN parse_date(df.rows[i][<<"D", "a", "t", "e">>])
                        ELSE NaN]])

\* the distinct texts of a set in ascending order (groupby sorts its keys)
RECURSIVE SortedKeys(_)
SortedKeys(S) ==
    IF S = {} THEN <<>>
    ELSE LET least == CHOOSE a \in S : \A b \in S : ~TextLess(b, a)
         IN  <<least>> \o SortedKeys(S \ {least})

\* a faulty variant: keeps the sign of the day's sum
DailyBurn_signed(x, basal) == Add(x, Num(basal, 0))

\* line 230: abs(x) + basal_burn
DailyBurn(x, basal) == Add(Abs(x), Num(basal, 0))

process_exercises(file_path, prefix, basal) ==
    LET df  == file_path
        col == prefix \o <<"_", "c", "a", "l", "o", "r", "i", "e", "s", "b", "u", "r", "n", "e", "d">>
        \* groupby('date').sum(): one row per key in ascending order; rows
        \* with a missing key belong to no group
        Grouped(days, calories_numeric, keys) ==
            [k \in 1..Len(keys) |->
                [c \in {date, col} |->
                    IF c = date THEN Str(keys[k])
                    ELSE LET In(i) == days[i] = Str(keys[k])
                             at == SelectSeq([i \in 1..Len(days) |-> i], In)
                         IN  DailyBurn(Sum([j \in 1..Len(at) |-> calories_numeric[at[j]]]),
                                       basal)]]
        Daily(days, calories_numeric) ==
            Grouped(days, calories_numeric,
                    SortedKeys({days[i].s : i \in {j \in 1..Len(days) : ~days[j].na}}))
    IN  IF ~df.readable \/ ~HasColumn(df, <<"D", "a", "y">>)
           \/ ~HasColumn(df, <<"C", "a", "l", "o", "r", "i", "e", "s", " ", "B", "u", "r", "n", "e", "d">>) THEN Raise
        ELSE DataFrame(<<date, col>>,
                Daily([i \in 1..Len(df.rows) |-> parse_date(df.rows[i][<<"D", "a", "y">>])],
                      [i \in 1..Len(df.rows) |->
                          strip_non_numeric(df.rows[i][<<"C", "a", "l", "o", "r", "i", "e", "s", " ", "B", "u", "r", "n", "e", "d">>])]))

process_biometrics(file_path, prefix) ==
    LET df  == file_path
        col == prefix \o <<"_", "s", "l", "e", "e", "p", "s", "c", "o", "r", "e">>
        IsSleepScore(row) ==
            ~row[<<"M", "e", "t", "r", "i", "c">>].na /\ row[<<"M", "e", "t", "r", "i", "c">>].s = <<"S", "l", "e", "e", "p", " ", "S", "c", "o", "r", "e", " ", "(", "G", "a", "r", "m", "i", "n", ")">>
        sleep_score_df == SelectSeq(df.rows, IsSleepScore)
    IN  IF ~df.readable \/ ~HasColumn(df, <<"D", "a", "y">>) \/ ~HasColumn(df, <<"M", "e", "t", "r", "i", "c">>)
           \/ ~HasColumn(df, <<"A", "m", "o", "u", "n", "t">>) THEN Raise
        ELSE DataFrame(<<date, col>>,
                [i \in 1..Len(sleep_score_df) |->
                    [c \in {date, col} |->
                        IF c = date THEN parse_date(sleep_score_df[i][<<"D", "a", "y">>])
                        ELSE strip_non_numeric(sleep_score_df[i][<<"A", "m", "o", "u", "n", "t">>])]])

\* the processors dictionary (lines 273-283)
processors ==
    {cron_carbs, garm_hrv, garm_intensity, wyze_scale, cron_sleep, garm_stress,
     cron_dailysummary, cron_exercises, cron_biometrics}

processor(p, fp) ==
    CASE p = cron_carbs        -> process_carbs(fp, p)
      [] p = garm_hrv          -> process_hrv(fp, p)
      [] p = garm_intensity    -> process_intensity(fp, p)
      [] p = wyze_scale        -> process_scale(fp, p)
      [] p = cron_sleep        -> process_sleep(fp, p)
      [] p = garm_stress       -> process_stress(fp, p)
      [] p = cron_dailysummary -> process_dailysummary(fp, p)
      [] p = cron_exercises    -> process_exercises(fp, p, basal_burn)
      [] p = cron_biometrics   -> process_biometrics(fp, p)

(***************************************************************************)
(* Processor specification: one processor applied to one bounded file      *)
(***************************************************************************)
MaxRows == 2

RawDates == {Str(<<"2", "0", "2", "5", "-", "1", "2", "-", "1", "5">>), Str(<<"J", "a", "n", " ", "2", "1">>), NoneStr}

RawValues == {Str(<<"7", "2", " ", "b", "p", "m">>), Str(<<"-", "-">>)}

RawCalories == {Str(<<"-", "3", "0", "0">>), Str(<<"-", "1", "5", "0">>), Str(<<"-", "-">>)}

RawOthers == {Str(<<"2", "1", ".", "5">>)}

RawMetrics == {Str(<<"S", "l", "e", "e", "p", " ", "S", "c", "o", "r", "e", " ", "(", "G", "a", "r", "m", "i", "n", ")">>), Str(<<"W", "e", "i", "g", "h", "t">>)}

DateColumns ==
    {<<"D", "a", "t", "e", "T", "i", "m", "e">>, <<"D", "a", "t", "e">>, <<"D", "a", "t", "e", " ", "a", "n", "d", " ", "T", "i", "m", "e">>, <<"R", "E", "M", " ", "S", "l", "e", "e", "p", " ", "(", "x", ")">>,
     <<"U", "n", "n", "a", "m", "e", "d", ":", " ", "0">>, <<"D", "a", "y">>}

CellDomain(col, wide) ==
    IF col \in DateColumns THEN RawDates
    ELSE IF ~wide THEN
        (IF col = <<"M", "e", "t", "r", "i", "c">> THEN RawMetrics
         ELSE IF col = <<"C", "a", "l", "o", "r", "i", "e", "s", " ", "B", "u", "r", "n", "e", "d">> THEN {Str(<<"-", "3", "0", "0">>)}
         ELSE {Str(<<"7", "2", " ", "b", "p", "m">>)})
    ELSE IF col = <<"M", "e", "t", "r", "i", "c">> THEN RawMetrics
    ELSE IF col = <<"C", "a", "l", "o", "r", "i", "e", "s", " ", "B", "u", "r", "n", "e", "d">> THEN RawCalories
    ELSE IF col \in {<<"B", "M", "I">>, <<"B", "M", "R">>, <<"7", "d", " ", "A", "v", "g">>, <<"L", "i", "g", "h", "t", " ", "S", "l", "e", "e", "p", " ", "(", "y", ")">>, <<"V", "a", "l", "u", "e">>}
    THEN RawOthers
    ELSE RawValues

\* the header layouts a file of the source may have: the full layout, one
\* the processor cannot read, and (processor specification only) one
\* without some of the optional columns
Layouts(p) ==
    CASE p = cron_carbs ->
            <<<<<<"D", "a", "t", "e", "T", "i", "m", "e">>, <<"N", "e", "t", " ", "C", "a", "r", "b", "s">>>>, <<<<"N", "e", "t", " ", "C", "a", "r", "b", "s">>>>, <<<<"D", "a", "t", "e", "T", "i", "m", "e">>>>>>
      [] p = garm_hrv ->
            <<<<<<"D", "a", "t", "e">>, <<"O", "v", "e", "r", "n", "i", "g", "h", "t", " ", "H", "R", "V">>, <<"B", "a", "s", "e", "l", "i", "n", "e">>, <<"7", "d", " ", "A", "v", "g">>>>,
              <<<<"O", "v", "e", "r", "n", "i", "g", "h", "t", " ", "H", "R", "V">>>>, <<<<"D", "a", "t", "e">>, <<"B", "a", "s", "e", "l", "i", "n", "e">>>>>>
      [] p = garm_intensity ->
            <<<<<<"D", "a", "t", "e">>, <<"A", "c", "t", "u", "a", "l">>, <<"V", "a", "l", "u", "e">>>>, <<<<"D", "a", "t", "e">>, <<"A", "c", "t", "u", "a", "l">>>>>>
      [] p = wyze_scale ->
            <<<<<<"D", "a", "t", "e", " ", "a", "n", "d", " ", "T", "i", "m", "e">>, <<"W", "e", "i", "g", "h", "t", "(", "l", "b", ")">>, <<"B", "M", "I">>, <<"B", "o", "d", "y", " ", "F", "a", "t">>, <<"B", "M", "R">>>>,
              <<<<"W", "e", "i", "g", "h", "t", "(", "l", "b", ")">>>>, <<<<"D", "a", "t", "e", " ", "a", "n", "d", " ", "T", "i", "m", "e">>, <<"B", "M", "I">>>>>>
      [] p = cron_sleep ->
            <<<<<<"R", "E", "M", " ", "S", "l", "e", "e", "p", " ", "(", "x", ")">>, <<"R", "E", "M", " ", "S", "l", "e", "e", "p", " ", "(", "y", ")">>, <<"L", "i", "g", "h", "t", " ", "S", "l", "e", "e", "p", " ", "(", "y", ")">>,
                <<"D", "e", "e", "p", " ", "S", "l", "e", "e", "p", " ", "(", "y", ")">>>>,
              <<<<"R", "E", "M", " ", "S", "l", "e", "e", "p", " ", "(", "y", ")">>>>, <<<<"R", "E", "M", " ", "S", "l", "e", "e", "p", " ", "(", "x", ")">>, <<"D", "e", "e", "p", " ", "S", "l", "e", "e", "p", " ", "(", "y", ")">>>>>>
      [] p = garm_stress ->
            <<<<<<"U", "n", "n", "a", "m", "e", "d", ":", " ", "0">>, <<"S", "t", "r", "e", "s", "s">>>>, <<<<"U", "n", "n", "a", "m", "e", "d", ":", " ", "0">>>>>>
      [] p = cron_dailysummary ->
            <<<<<<"D", "a", "t", "e">>, <<"E", "n", "e", "r", "g", "y", " ", "(", "k", "c", "a", "l", ")">>>>, <<<<"E", "n", "e", "r", "g", "y", " ", "(", "k", "c", "a", "l", ")">>>>, <<<<"D", "a", "t", "e">>>>>>
      [] p = cron_exercises ->
            <<<<<<"D", "a", "y">>, <<"C", "a", "l", "o", "r", "i", "e", "s", " ", "B", "u", "r", "n", "e", "d">>>>, <<<<"C", "a", "l", "o", "r", "i", "e", "s", " ", "B", "u", "r", "n", "e", "d">>>>, <<<<"D", "a", "y">>>>>>
      [] p = cron_biometrics ->
            <<<<<<"D", "a", "y">>, <<"M", "e", "t", "r", "i", "c">>, <<"A", "m", "o", "u", "n", "t">>>>, <<<<"M", "e", "t", "r", "i", "c">>, <<"A", "m", "o", "u", "n", "t">>>>>>

\* the rows over the columns cols, every cell drawn from its column's
\* domain (the run draws the value cells from one text each)
RECURSIVE RawRows(_, _)
RawRows(cols, wide) ==
    IF cols = <<>> THEN {<<>>}
    ELSE {(Head(cols) :> c) @@ r :
             c \in CellDomain(Head(cols), wide), r \in RawRows(Tail(cols), wide)}

\* the files of a source with at most max data rows
FilesUpTo(p, max, wide) ==
    {NoFile} \cup
    UNION {{[readable |-> TRUE, columns |-> cols, rows |-> rows] :
               rows \in UNION {[1..n -> RawRows(cols, wide)] : n \in 0..max}} :
           cols \in {Layouts(p)[k] :
                        k \in 1..(IF wide \/ Len(Layouts(p)) < 2
                                  THEN Len(Layouts(p)) ELSE 2)}}

InitProc ==
    /\ platform = "glibc"
    /\ fn = "none"
    /\ arg = NoneStr
    /\ ret = NoneStr
    /\ IdleProc
    /\ IdleRun

\* processors[prefix](file_path, prefix) for the file f of source p gave df
Process(p, f, df) ==
    /\ cur_prefix = <<>>
    /\ cur_prefix' = p
    /\ cur_file' = f
    /\ table' = df
    /\ UNCHANGED <<platform, fnVars, runVars>>

ProcessCarbs ==
    \E f \in FilesUpTo(cron_carbs, MaxRows, TRUE) :
        Process(cron_carbs, f, process_carbs(f, cron_carbs))

ProcessHrv ==
    \E f \in FilesUpTo(garm_hrv, MaxRows, TRUE) :
        Process(garm_hrv, f, process_hrv(f, garm_hrv))

ProcessIntensity ==
    \E f \in FilesUpTo(garm_intensity, MaxRows, TRUE) :
        Process(garm_intensity, f, process_intensity(f, garm_intensity))

ProcessScale ==
    \E f \in FilesUpTo(wyze_scale, MaxRows, TRUE) :
        Process(wyze_scale, f, process_scale(f, wyze_scale))

ProcessSleep ==
    \E f \in FilesUpTo(cron_sleep, MaxRows, TRUE) :
        Process(cron_sleep, f, process_sleep(f, cron_sleep))

ProcessStress ==
    \E f \in FilesUpTo(garm_stress, MaxRows, TRUE) :
        Process(garm_stress, f, process_stress(f, garm_stress))

ProcessDailysummary ==
    \E f \in FilesUpTo(cron_dailysummary, MaxRows, TRUE) :
        Process(cron_dailysummary, f, process_dailysummary(f, cron_dailysummary))

ProcessExercises ==
    \E f \in FilesUpTo(cron_exercises, MaxRows, TRUE) :
        Process(cron_exercises, f, process_exercises(f, cron_exercises, basal_burn))

ProcessBiometrics ==
    \E f \in FilesUpTo(cron_biometrics, MaxRows, TRUE) :
        Process(cron_biometrics, f, process_biometrics(f, cron_biometrics))

NextProc ==
    \/ ProcessCarbs
    \/ ProcessHrv
    \/ ProcessIntensity
    \/ ProcessScale
    \/ ProcessSleep
    \/ ProcessStress
    \/ ProcessDailysummary
    \/ ProcessExercises
    \/ ProcessBiometrics

SpecProc == InitProc /\ [][NextProc]_vars

(***************************************************************************)
(* consolidate_csv_files                                                   *)
(***************************************************************************)
Range(s) == {s[i] : i \in 1..Len(s)}

\* the rows of t with the key k, in their order
RowsWithKey(t, k) == LET Has(row) == row[date] = k IN SelectSeq(t.rows, Has)

\* a faulty variant: drops the rows of the right table that match nothing (how='left')
merge_left(left, right) ==
    LET others == LET NotDate(c) == c # date IN SelectSeq(right.columns, NotDate)
        columns == left.columns \o others
        Row(l, r) == [c \in Range(columns) |->
                        IF c \in Range(left.columns) THEN l[c] ELSE r[c]]
        blank == [c \in Range(right.columns) |-> NaN]
        Rows(i) == LET rs == RowsWithKey(right, left.rows[i][date])
                   IN  IF rs = <<>> THEN <<Row(left.rows[i], blank)>>
                       ELSE [j \in 1..Len(rs) |-> Row(left.rows[i], rs[j])]
        Flat[i \in 0..Len(left.rows)] == IF i = 0 THEN <<>> ELSE Flat[i - 1] \o Rows(i)
    IN  DataFrame(columns, Flat[Len(left.rows)])

\* left.merge(right, on='date', how='outer'): the keys of both tables in
\* ascending order with the missing key last; rows with equal keys are
\* paired, a missing key equals a missing key; a row without a partner
\* gets NaN in the other table's columns
merge(left, right) ==
    LET others == LET NotDate(c) == c # date IN SelectSeq(right.columns, NotDate)
        columns == left.columns \o others
        cells == {left.rows[i][date] : i \in 1..Len(left.rows)}
                 \cup {right.rows[i][date] : i \in 1..Len(right.rows)}
        texts == SortedKeys({k.s : k \in {c \in cells : ~c.na}})
        keys == [i \in 1..Len(texts) |-> Str(texts[i])]
                \o (IF NoneStr \in cells THEN <<NoneStr>> ELSE <<>>)
        Row(k, l, r) == [c \in Range(columns) |->
                            IF c = date THEN k
                            ELSE IF c \in Range(left.columns) THEN l[c] ELSE r[c]]
        blankL == [c \in Range(left.columns) |-> NaN]
        blankR == [c \in Range(right.columns) |-> NaN]
        Group(k) ==
            LET ls == RowsWithKey(left, k)
                rs == RowsWithKey(right, k)
            IN  IF rs = <<>> THEN [i \in 1..Len(ls) |-> Row(k, ls[i], blankR)]
                ELSE IF ls = <<>> THEN [j \in 1..Len(rs) |-> Row(k, blankL, rs[j])]
                ELSE [n \in 1..(Len(ls) * Len(rs)) |->
                         Row(k, ls[((n - 1) \div Len(rs)) + 1],
                                rs[((n - 1) % Len(rs)) + 1])]
        Flat[i \in 0..Len(keys)] == IF i = 0 THEN <<>> ELSE Flat[i - 1] \o Group(keys[i])
    IN  DataFrame(columns, Flat[Len(keys)])

\* lines 305-307: the tables merged from the left
RECURSIVE MergeAll(_)
MergeAll(dfs) ==
    IF Len(dfs) = 1 THEN dfs[1]
    ELSE merge(MergeAll(SubSeq(dfs, 1, Len(dfs) - 1)), dfs[Len(dfs)])

\* pd.to_numeric(text, errors='coerce')
to_numeric(cell) ==
    IF ~cell.na /\ cell.s # <<>> /\ DigitRun(cell.s, 1) = Len(cell.s)
    THEN Num(DigitsVal(cell.s), 0)
    ELSE NaN

\* a faulty variant: excludes the bound itself
AtLeast_strict(d, bound) == ~d.na /\ d.m > bound

\* line 311: date >= from_date; a comparison with NaN is false
AtLeast(d, bound) == ~d.na /\ d.m >= bound

\* sort_values('date'): ascending, rows with equal dates keep their order
RECURSIVE sort_values(_)
sort_values(rows) ==
    IF rows = <<>> THEN <<>>
    ELSE LET rest == sort_values(SubSeq(rows, 1, Len(rows) - 1))
             last == rows[Len(rows)]
             k    == Cardinality({i \in 1..Len(rest) : rest[i][date].m <= last[date].m})
         IN  SubSeq(rest, 1, k) \o <<last>> \o SubSeq(rest, k + 1, Len(rest))

\* lines 310-318: numeric dates, the fromdate filter, the sort and the
\* column order
FilterSortOrder(merged, bound) ==
    LET numeric == [i \in 1..Len(merged.rows) |->
                        [merged.rows[i] EXCEPT ![date] = to_numeric(@)]]
        Keep(row) == AtLeast(row[date], bound)
        NotDate(c) == c # date
        cols == <<date>> \o sorted(SelectSeq(merged.columns, NotDate))
    IN  DataFrame(cols, sort_values(SelectSeq(numeric, Keep)))

(***************************************************************************)
(* Run specification: the loop over the configured sources, one iteration  *)
(* per step, then the consolidation                                        *)
(***************************************************************************)
MaxSources == 3

MaxTotalRows == 3

fitbit_steps == <<"f", "i", "t", "b", "i", "t", "_", "s", "t", "e", "p", "s">>

\* the prefixes a configuration is drawn from; the last has no processor
ConfigOrder == <<cron_carbs, garm_stress, cron_exercises, fitbit_steps>>

\* input_files: at most MaxSources of these prefixes, each once (the keys
\* of a dict), in the order above
Configs ==
    LET Pick(S) == LET In(i) == i \in S
                       at == SelectSeq([i \in 1..Len(ConfigOrder) |-> i], In)
                   IN  [k \in 1..Len(at) |-> ConfigOrder[at[k]]]
    IN  {Pick(S) : S \in {T \in SUBSET (1..Len(ConfigOrder)) :
                              Cardinality(T) <= MaxSources}}

\* data rows read so far, over all files
RECURSIVE RowsRead(_)
RowsRead(ins) == IF ins = <<>> THEN 0 ELSE Head(ins).rows + RowsRead(Tail(ins))

FromDates == {20251215, 20260121}

\* the column the source's processor reads the date from
DateColumn(p, f) ==
    CASE p \in {garm_hrv, cron_dailysummary} -> <<"D", "a", "t", "e">>
      [] p = cron_carbs -> <<"D", "a", "t", "e", "T", "i", "m", "e">>
      [] p = wyze_scale -> <<"D", "a", "t", "e", " ", "a", "n", "d", " ", "T", "i", "m", "e">>
      [] p = cron_sleep -> <<"R", "E", "M", " ", "S", "l", "e", "e", "p", " ", "(", "x", ")">>
      [] p \in {cron_exercises, cron_biometrics} -> <<"D", "a", "y">>
      [] OTHER -> f.columns[1]

\* what is wrong with a file, if anything
FileKind(p, f) ==
    IF ~f.readable THEN "unreadable"
    ELSE IF ~HasColumn(f, DateColumn(p, f)) THEN "no_date_column"
    ELSE "ok"

InitRun ==
    /\ platform = "glibc"
    /\ fn = "none"
    /\ arg = NoneStr
    /\ ret = NoneStr
    /\ IdleProc
    /\ input_files \in Configs
    /\ from_date \in FromDates
    /\ idx = 0
    /\ dataframes = <<>>
    /\ inputs = <<>>
    /\ log = <<>>
    /\ consolidated = NoTable
    /\ output = NoTable
    /\ pc = "loop"

\* lines 288-290: the source's file does not exist
FileNotFound ==
    /\ pc = "loop"
    /\ idx < Len(input_files)
    /\ idx' = idx + 1
    /\ inputs' = Append(inputs, [kind |-> "missing", rows |-> 0])
    /\ log' = Append(log, "not found, skipping")
    /\ UNCHANGED <<platform, fnVars, procVars, input_files, from_date,
                   dataframes, consolidated, output, pc>>

\* lines 292-298: the file exists and the prefix has a processor; an
\* exception of the processor is caught nowhere and ends the run
ProcessFile ==
    /\ pc = "loop"
    /\ idx < Len(input_files)
    /\ input_files[idx + 1] \in processors
    /\ \E f \in FilesUpTo(input_files[idx + 1],
                           MaxTotalRows - RowsRead(inputs), FALSE) :
          LET df == processor(input_files[idx + 1], f)
          IN  /\ inputs' = Append(inputs,
                                  [kind |-> FileKind(input_files[idx + 1], f),
                                   rows |-> Len(f.rows)])
              /\ IF df.ok
                 THEN /\ dataframes' = Append(dataframes, df)
                      /\ idx' = idx + 1
                      /\ pc' = pc
                 ELSE /\ pc' = "raised"
                      /\ UNCHANGED <<dataframes, idx>>
    /\ log' = Append(log, "Processing")
    /\ UNCHANGED <<platform, fnVars, procVars, input_files, from_date,
                   consolidated, output>>

\* lines 292-300: the file exists and the prefix has no processor
NoProcessor ==
    /\ pc = "loop"
    /\ idx < Len(input_files)
    /\ input_files[idx + 1] \notin processors
    /\ idx' = idx + 1
    /\ inputs' = Append(inputs, [kind |-> "ok", rows |-> 0])
    /\ log' = log \o <<"Processing", "No processor found">>
    /\ UNCHANGED <<platform, fnVars, procVars, input_files, from_date,
                   dataframes, consolidated, output, pc>>

\* lines 302-333: at least one table; merge, filter, sort, order, write
Consolidate ==
    /\ pc = "loop"
    /\ idx = Len(input_files)
    /\ dataframes # <<>>
    /\ consolidated' = MergeAll(dataframes)
    /\ output' = FilterSortOrder(consolidated', from_date)
    /\ log' = log \o <<"Consolidating data...", "Consolidation complete!">>
    /\ pc' = "done"
    /\ UNCHANGED <<platform, fnVars, procVars, input_files, from_date, idx,
                   dataframes, inputs>>

\* lines 302-304, 334-335: no table at all; nothing is written
NoData ==
    /\ pc = "loop"
    /\ idx = Len(input_files)
    /\ dataframes = <<>>
    /\ log' = log \o <<"Consolidating data...", "Error: No data to consolidate">>
    /\ pc' = "done"
    /\ UNCHANGED <<platform, fnVars, procVars, input_files, from_date, idx,
                   dataframes, inputs, consolidated, output>>

NextRun ==
    \/ FileNotFound
    \/ ProcessFile
    \/ NoProcessor
    \/ Consolidate
    \/ NoData

SpecRun == InitRun /\ [][NextRun]_vars

(***************************************************************************)
(* Claims about the helpers (specification SpecFn)                         *)
(***************************************************************************)
AllDigits(s) == \A i \in 1..Len(s) : s[i] \in Digits

\* t is an optional sign, digits, and optionally a point and more digits
IsNumberRun(t) ==
    /\ t # <<>>
    /\ LET u == IF t[1] \in {"-", "+"} THEN Tail(t) ELSE t
       IN  \E n \in 1..Len(u) :
              /\ AllDigits(SubSeq(u, 1, n))
              /\ \/ n = Len(u)
                 \/ u[n + 1] = "." /\ AllDigits(SubSeq(u, n + 2, Len(u)))

\* the first contiguous run of s: the leftmost start, the longest from there
FirstRun(s) ==
    LET runs == {ij \in (1..Len(s)) \X (1..Len(s)) :
                    ij[1] <= ij[2] /\ IsNumberRun(SubSeq(s, ij[1], ij[2]))}
        first == CHOOSE ij \in runs :
                    \A kl \in runs : ij[1] < kl[1] \/ (ij[1] = kl[1] /\ ij[2] >= kl[2])
    IN  IF runs = {} THEN <<>> ELSE SubSeq(s, first[1], first[2])

\* cell c is the number written by the run t
IsValueOf(c, t) ==
    LET neg  == t[1] = "-"
        u    == IF t[1] \in {"-", "+"} THEN Tail(t) ELSE t
        LeftOfPoint(i) == \A j \in 1..i : u[j] # "."
        NotPoint(ch) == ch # "."
        frac == Cardinality({i \in 1..Len(u) : u[i] # "." /\ ~LeftOfPoint(i)})
        mag  == DigitsVal(SelectSeq(u, NotPoint))
    IN  /\ ~c.na
        /\ c.m * Pow10(frac) = (IF neg THEN 0 - mag ELSE mag) * Pow10(c.e)

NullTexts == {<<>>, <<"n", "a", "n">>, <<"-", "-">>, <<"-", " ", "-">>}

\* C9: strip_non_numeric returns null for an absent, blank, "nan", "--" or
\* "- -" input; for any other input it returns the value of the first
\* contiguous run of an optional sign, digits, an optional decimal point
\* and more digits, and null when the text holds no such run.
C9_StripNonNumeric ==
    fn = "strip_non_numeric" =>
        IF arg.na \/ strip(arg.s) \in NullTexts THEN ret.na
        ELSE IF FirstRun(arg.s) = <<>> THEN ret.na
        ELSE IsValueOf(ret, FirstRun(arg.s))

\* "-- 72.5 bpm" has given 72.5
C9_Witness ==
    /\ fn = "strip_non_numeric"
    /\ arg = Str(<<"-", "-", " ", "7", "2", ".", "5", " ", "b", "p", "m">>)
    /\ ret = Num(725, 1)

EightDigits(c) == ~c.na /\ Len(c.s) = 8 /\ AllDigits(c.s)

MatchesFullFormat(s) == \E k \in 1..Len(formats) : strptime(s, formats[k]).ok

\* C6: parse_date returns null or an 8-digit YYYYMMDD text; when no full
\* format matches, the abbreviated month form gives the year 2025 exactly
\* for Dec and 2026 for every other month, and a text of neither form
\* gives null.
C6_ParseDate ==
    fn = "parse_date" =>
        LET s == strip(str(arg))
            abbreviated == \E i \in 1..Len(month_abbr) : startswith(s, month_abbr[i])
        IN  /\ ret.na \/ EightDigits(ret)
            /\ ~MatchesFullFormat(s) /\ ~ret.na =>
                  SubSeq(ret.s, 1, 4) =
                      (IF startswith(s, <<"D", "e", "c">>) THEN <<"2", "0", "2", "5">> ELSE <<"2", "0", "2", "6">>)
            /\ ~MatchesFullFormat(s) /\ ~abbreviated => ret.na

(***************************************************************************)
(* Claims about the processors (specification SpecProc)                    *)
(***************************************************************************)
\* the parsed date of data row i of the file just processed
InputDate(i) == parse_date(cur_file.rows[i][DateColumn(cur_prefix, cur_file)])

\* the whole-number calories of data row i, nothing for a missing value
InputCalories(i) ==
    LET c == strip_non_numeric(cur_file.rows[i][<<"C", "a", "l", "o", "r", "i", "e", "s", " ", "B", "u", "r", "n", "e", "d">>])
    IN  IF c.na THEN 0 ELSE c.m \div Pow10(c.e)

RECURSIVE Total(_, _)
Total(rows, d) ==
    IF rows = {} THEN 0
    ELSE LET i == CHOOSE j \in rows : TRUE
         IN  (IF InputDate(i) = d THEN InputCalories(i) ELSE 0) + Total(rows \ {i}, d)

Magnitude(n) == IF n < 0 THEN 0 - n ELSE n

Calories == cron_exercises \o <<"_", "c", "a", "l", "o", "r", "i", "e", "s", "b", "u", "r", "n", "e", "d">>

\* C2: process_exercises gives exactly one row per distinct date of the
\* input, and its calories are abs(sum of the calories of the input rows
\* with that date) + basalburn.
C2_ExercisesDailyTotal ==
    cur_prefix = cron_exercises /\ table.ok =>
        LET days == {InputDate(i) : i \in 1..Len(cur_file.rows)} \ {NoneStr}
        IN  /\ Len(table.rows) = Cardinality(days)
            /\ {table.rows[k][date] : k \in 1..Len(table.rows)} = days
            /\ \A k \in 1..Len(table.rows) :
                  table.rows[k][Calories] =
                      Num(Magnitude(Total(1..Len(cur_file.rows), table.rows[k][date]))
                          + basal_burn, 0)

\* two rows of one day, -300 and -150, have given the single row 2450
C2_Witness ==
    /\ cur_prefix = cron_exercises
    /\ table.ok
    /\ Len(cur_file.rows) = 2
    /\ InputDate(1) = InputDate(2)
    /\ {InputCalories(1), InputCalories(2)} = {0 - 300, 0 - 150}
    /\ Len(table.rows) = 1
    /\ table.rows[1][Calories] = Num(2450, 0)

\* C8, as claimed: every source other than exercises gives one output row
\* per input data row.
C8_OneRowPerInputRow ==
    cur_prefix # <<>> /\ cur_prefix # cron_exercises /\ table.ok =>
        Len(table.rows) = Len(cur_file.rows)

IsSleepScoreRow(i) ==
    cur_file.rows[i][<<"M", "e", "t", "r", "i", "c">>] = Str(<<"S", "l", "e", "e", "p", " ", "S", "c", "o", "r", "e", " ", "(", "G", "a", "r", "m", "i", "n", ")">>)

\* C8, amended: every source other than exercises and biometrics gives one
\* output row per input data row, in the input's order; biometrics gives
\* one output row per input row whose Metric is "Sleep Score (Garmin)", in
\* the input's order.
C8_OneRowPerKeptRow ==
    cur_prefix # <<>> /\ cur_prefix # cron_exercises /\ table.ok =>
        LET Kept(i) == cur_prefix = cron_biometrics => IsSleepScoreRow(i)
            at == SelectSeq([i \in 1..Len(cur_file.rows) |-> i], Kept)
        IN  /\ Len(table.rows) = Len(at)
            /\ \A k \in 1..Len(at) : table.rows[k][date] = InputDate(at[k])

\* a table of two rows from two input rows with different dates, one missing
C8_Witness ==
    /\ cur_prefix \notin {<<>>, cron_exercises, cron_biometrics}
    /\ table.ok
    /\ Len(cur_file.rows) = 2
    /\ Len(table.rows) = 2
    /\ table.rows[1][date].na
    /\ ~table.rows[2][date].na

(***************************************************************************)
(* Claims about the run (specification SpecRun)                            *)
(***************************************************************************)
Count(rows, r) == Cardinality({i \in 1..Len(rows) : rows[i] = r})

\* the two sequences hold the same rows, each as often
SameRows(a, b) ==
    /\ Len(a) = Len(b)
    /\ \A i \in 1..Len(a) : Count(a, a[i]) = Count(b, a[i])

\* the date of a merged row as a number; -1 for a missing date
DateNumber(row) == IF row[date].na THEN 0 - 1 ELSE DigitsVal(row[date].s)

\* C1: the emitted table holds exactly the merged rows whose date is
\* present and numerically >= fromdate, in non-decreasing order of date.
C1_FilteredAndSorted ==
    pc = "done" /\ output.ok =>
        LET merged == consolidated.rows
            Due(row) == DateNumber(row) >= from_date
            due == SelectSeq(merged, Due)
            AsEmitted(row) == [row EXCEPT ![date] = Num(DateNumber(row), 0)]
        IN  /\ SameRows(output.rows, [i \in 1..Len(due) |-> AsEmitted(due[i])])
            /\ \A i \in 1..Len(output.rows) :
                  ~output.rows[i][date].na /\ output.rows[i][date].m >= from_date
            /\ \A i, j \in 1..Len(output.rows) :
                  i < j => output.rows[i][date].m <= output.rows[j][date].m

\* the merge held a row dated fromdate after a later one and a row without
\* a date; the first two were emitted in ascending order, the last was not
C1_Witness ==
    /\ pc = "done"
    /\ output.ok
    /\ Len(consolidated.rows) = 3
    /\ DateNumber(consolidated.rows[1]) > from_date
    /\ DateNumber(consolidated.rows[2]) = from_date
    /\ consolidated.rows[3][date].na
    /\ Len(output.rows) = 2
    /\ output.rows[1][date].m = from_date
    /\ output.rows[2][date].m > from_date

\* the columns of the tables other than table k
ForeignColumns(k) ==
    UNION {Range(dataframes[j].columns) : j \in (1..Len(dataframes)) \ {k}} \ {date}

\* C3: in the outer join a row without a date matches no row of another
\* source's table: it stays a row of its own with nulls in every other
\* source's columns.
C3_NullDatesNeverMatch ==
    pc = "done" /\ consolidated.ok =>
        \A i \in 1..Len(consolidated.rows) :
            consolidated.rows[i][date].na =>
                \E k \in 1..Len(dataframes) :
                    \A c \in ForeignColumns(k) : consolidated.rows[i][c].na

BadKinds == {"unreadable", "no_date_column"}

\* C4: a file that is unreadable or lacks its date column is skipped and
\* never aborts the run: the run goes on to the merge.
C4_BadFileNeverAborts ==
    (\E i \in 1..Len(inputs) : inputs[i].kind \in BadKinds) => pc # "raised"

Contributed == \E k \in 1..Len(dataframes) : Len(dataframes[k].rows) > 0

\* C5: when no source contributes any data the run reports "No data to
\* consolidate" and writes no output; an output is written only when some
\* source contributed data, and never without rows.
C5_NoDataNoOutput ==
    pc = "done" =>
        /\ ~Contributed =>
              ~output.ok /\ log[Len(log)] = "Error: No data to consolidate"
        /\ output.ok => Contributed /\ Len(output.rows) > 0

\* C7: no table handed to the merge holds two identical rows.
C7_NoDuplicateRows ==
    \A k \in 1..Len(dataframes) :
        \A i, j \in 1..Len(dataframes[k].rows) :
            i # j => dataframes[k].rows[i] # dataframes[k].rows[j]

Orderings(n) == {p \in [1..n -> 1..n] : \A i, j \in 1..n : i # j => p[i] # p[j]}

\* C10: the consolidated result does not depend on the order in which the
\* sources are joined: every ordering of the per-source tables gives the
\* same columns in the same order and the same rows.
C10_OrderIndependent ==
    pc = "done" /\ output.ok =>
        \A p \in Orderings(Len(dataframes)) :
            LET other == FilterSortOrder(
                            MergeAll([i \in 1..Len(dataframes) |-> dataframes[p[i]]]),
                            from_date)
            IN  /\ other.columns = output.columns
                /\ SameRows(other.rows, output.rows)

\* three tables were joined, two of them share a date, and rows came out
C10_Witness ==
    /\ pc = "done"
    /\ output.ok
    /\ Len(dataframes) = 3
    /\ \A k \in 1..3 : Len(dataframes[k].rows) > 0
    /\ dataframes[1].rows[1][date] = dataframes[3].rows[1][date]
    /\ dataframes[1].rows[1][date] # dataframes[2].rows[1][date]
    /\ Len(output.rows) >= 2

====
